---- MODULE Spec2Model ----
(***************************************************************************)
(* Model of the two database wrappers of local-rag:                        *)
(*   SQLServerLangChain (langchain_sqlserver.py)  -- object "lc"            *)
(*   OllamaSQLAgent     (ollama_sql_advanced.py)  -- object "ol"            *)
(*                                                                         *)
(* Python strings are sequences of text tokens; concatenation is \o.       *)
(* Python values carry a tag t: "none", "str", "list", "df", "dict",       *)
(* "exc", and the handles "db", "engine", "llm", "agent".  A missing       *)
(* attribute is the value Unset.  Every call on an external collaborator   *)
(* (database session, pandas, LLM constructor, agent factory, agent,       *)
(* chain) either returns a value or raises an Exception; which one is the  *)
(* environment's choice.  Each method is an operator from the object, its  *)
(* arguments and the outcomes of the external calls to the object after    *)
(* the call, the call's outcome and the external calls it made.            *)
(***************************************************************************)
EXTENDS Integers, Sequences, FiniteSets, TLC

VARIABLES args, lc, ol, last, configured, nsetup

vars == <<args, lc, ol, last, configured, nsetup>>

\* Largest number of configure calls (setup_agent / setup_ollama) made on one
\* instance.
MaxSetups == 2

-----------------------------------------------------------------------------
\* Python values

PyNone == [t |-> "none"]

Unset == [t |-> "unset"]

PyStr(s) == [t |-> "str", s |-> s]

PyList(items) == [t |-> "list", items |-> items]

Exc(msg) == [t |-> "exc", msg |-> msg]

\* str(e) of an exception: its message text
StrOfExc(e) == e.msg

\* bool(v): None, the empty string and the empty list are false
Truthy(v) ==
    CASE v.t = "none" -> FALSE
      [] v.t = "unset" -> FALSE
      [] v.t = "str" -> v.s /= <<>>
      [] v.t = "list" -> v.items /= <<>>
      [] OTHER -> TRUE

\* "{v}" inside an f-string: str(v); None is formatted as the text None
Format(v) ==
    CASE v.t = "none" -> <<"None">>
      [] v.t = "str" -> v.s
      [] OTHER -> <<"<object>">>

IsSpace(tok) == tok \in {" ", "\n", "\t"}

RECURSIVE lstrip(_)
lstrip(s) == IF s /= <<>> /\ IsSpace(Head(s)) THEN lstrip(Tail(s)) ELSE s

RECURSIVE rstrip(_)
rstrip(s) ==
    IF s /= <<>> /\ IsSpace(s[Len(s)]) THEN rstrip(SubSeq(s, 1, Len(s) - 1)) ELSE s

\* str.strip()
strip(s) == rstrip(lstrip(s))

\* Outcome of a call: a returned value or a raised exception
Ok(v) == [kind |-> "return", value |-> v]

Raise(e) == [kind |-> "raise", exc |-> e]

\* One call on an external collaborator, with what it was given and what it did
Call(target, method, arg, result) ==
    [target |-> target, method |-> method, arg |-> arg, result |-> result]

\* What a method did: the object afterwards, its outcome, the calls it made
Done(self, out, calls) == [self |-> self, out |-> out, calls |-> calls]

-----------------------------------------------------------------------------
\* Input and environment domains

Servers == {PyStr(<<"localhost">>)}

Databases == {PyStr(<<"AdventureWorks2019">>)}

Usernames == {PyNone, PyStr(<<"sa">>)}

Passwords == {PyNone, PyStr(<<"secret">>)}

Queries == {PyStr(<<"SELECT TOP 5 * FROM Person.Person">>)}

Questions == {PyStr(<<"Quante persone ci sono nel database?">>)}

Contexts == {PyNone, PyStr(<<>>), PyStr(<<"Solo clienti attivi">>)}

TableNames == {PyStr(<<"Person">>)}

ApiKeys == {PyStr(<<"sk-key">>)}

ModelNames == {PyStr(<<"llama3">>)}

BaseUrls == {PyStr(<<"http://localhost:11434">>)}

Exceptions == {Exc(<<"timeout">>), Exc(<<"syntax error">>)}

\* No exception, or one of the exceptions
MaybeExc == {PyNone} \cup Exceptions

DbResults == {PyStr(<<"[(1,)]">>)}

TableLists == {PyList(<<>>), PyList(<<"Person">>)}

Schemas == {PyStr(<<"CREATE TABLE Person (id INT)">>)}

DataFrames == {[t |-> "df", rows |-> 1]}

\* Texts an agent or a chain answers with; one carries surrounding whitespace
Answers == {PyStr(<<"42">>), PyStr(<<" ", "SELECT 1", "\n">>)}

Outcomes(values) == {Ok(v) : v \in values} \cup {Raise(e) : e \in Exceptions}

-----------------------------------------------------------------------------
\* Handles of the external library

\* SQLDatabase.from_uri(connection_string)
SQLDatabase(uri) == [t |-> "db", uri |-> uri]

\* self.db._engine
Engine(db) == [t |-> "engine", uri |-> db.uri]

\* OpenAI(temperature=0, openai_api_key=...) / Ollama(model=..., base_url=..., ...)
LLM(ctor, config, id) == [t |-> "llm", ctor |-> ctor, config |-> config, id |-> id]

\* create_sql_agent(llm=..., db=..., ...)
Agent(llm, db, id) == [t |-> "agent", llm |-> llm, db |-> db, id |-> id]

-----------------------------------------------------------------------------
\* SQLServerLangChain

\* __init__: the connection string and the session made from it
SQLServerLangChain_init(server, database, username, password, use_windows_auth) ==
    LET connection_string ==
            IF use_windows_auth
            THEN <<"mssql+pyodbc://">> \o Format(server) \o <<"/">> \o Format(database)
                 \o <<"?driver=", "ODBC+Driver+17+for+SQL+Server", "&trusted_connection=yes">>
            ELSE <<"mssql+pyodbc://">> \o Format(username) \o <<":">> \o Format(password)
                 \o <<"@">> \o Format(server) \o <<"/">> \o Format(database)
                 \o <<"?driver=", "ODBC+Driver+17+for+SQL+Server">>
    IN  [connection_string |-> connection_string,
         db |-> SQLDatabase(connection_string),
         agent_executor |-> Unset]

get_tables(self, dbOut) ==
    Done(self, dbOut, <<Call("db", "get_table_names", PyNone, dbOut)>>)

get_table_schema(self, table_name, dbOut) ==
    Done(self, dbOut, <<Call("db", "get_table_info", PyList(<<table_name>>), dbOut)>>)

\* execute_query without the try/except: an exception of the session propagates
execute_query_propagates(self, query, dbOut) ==
    Done(self, dbOut, <<Call("db", "run", query, dbOut)>>)

execute_query(self, query, dbOut) ==
    Done(self,
         IF dbOut.kind = "return"
         THEN Ok(dbOut.value)
         ELSE Ok(PyStr(<<"Errore nell'esecuzione della query: ">> \o StrOfExc(dbOut.exc))),
         <<Call("db", "run", query, dbOut)>>)

\* llmExc / agentExc: the exception OpenAI(...) / create_sql_agent(...) raises, or None
setup_agent(self, openai_api_key, id, llmExc, agentExc) ==
    LET llm == LLM("OpenAI", openai_api_key, id)
        agent == Agent(llm, self.db, id)
        llmCall == Call("OpenAI", "__init__", openai_api_key,
                        IF llmExc = PyNone THEN Ok(llm) ELSE Raise(llmExc))
        agentCall == Call("create_sql_agent", "__call__", llm,
                          IF agentExc = PyNone THEN Ok(agent) ELSE Raise(agentExc))
    IN  IF llmExc /= PyNone THEN Done(self, Raise(llmExc), <<llmCall>>)
        ELSE IF agentExc /= PyNone THEN Done(self, Raise(agentExc), <<llmCall, agentCall>>)
        ELSE Done([self EXCEPT !.agent_executor = agent], Ok(PyNone), <<llmCall, agentCall>>)

\* natural_language_query without the hasattr test
natural_language_query_unchecked(self, question, agentOut) ==
    Done(self,
         IF agentOut.kind = "return"
         THEN Ok(agentOut.value)
         ELSE Ok(PyStr(<<"Errore", " nella query: ">> \o StrOfExc(agentOut.exc))),
         <<Call("agent", "run", question, agentOut)>>)

natural_language_query(self, question, agentOut) ==
    IF self.agent_executor = Unset
    THEN Done(self, Ok(PyStr(<<"Errore", ": Agente non configurato. Usa setup_agent() prima.">>)), <<>>)
    ELSE Done(self,
              IF agentOut.kind = "return"
              THEN Ok(agentOut.value)
              ELSE Ok(PyStr(<<"Errore", " nella query: ">> \o StrOfExc(agentOut.exc))),
              <<Call("agent", "run", question, agentOut)>>)

\* query_to_dataframe with the engine read before the try
query_to_dataframe_engine_outside_try(self, query, engineExc, pdOut) ==
    LET engineCall == Call("db", "_engine", PyNone,
                           IF engineExc = PyNone THEN Ok(Engine(self.db)) ELSE Raise(engineExc))
        pdCall == Call("pandas", "read_sql_query", query, pdOut)
        printCall(e) == Call("print", "__call__",
                             PyStr(<<"Errore nel creare DataFrame: ">> \o StrOfExc(e)), Ok(PyNone))
    IN  IF engineExc /= PyNone
        THEN Done(self, Raise(engineExc), <<engineCall>>)
        ELSE IF pdOut.kind = "raise"
        THEN Done(self, Ok(PyNone), <<engineCall, pdCall, printCall(pdOut.exc)>>)
        ELSE Done(self, Ok(pdOut.value), <<engineCall, pdCall>>)

\* engineExc: the exception reading self.db._engine raises, or None
query_to_dataframe(self, query, engineExc, pdOut) ==
    LET engineCall == Call("db", "_engine", PyNone,
                           IF engineExc = PyNone THEN Ok(Engine(self.db)) ELSE Raise(engineExc))
        pdCall == Call("pandas", "read_sql_query", query, pdOut)
        printCall(e) == Call("print", "__call__",
                             PyStr(<<"Errore nel creare DataFrame: ">> \o StrOfExc(e)), Ok(PyNone))
    IN  IF engineExc /= PyNone
        THEN Done(self, Ok(PyNone), <<engineCall, printCall(engineExc)>>)
        ELSE IF pdOut.kind = "raise"
        THEN Done(self, Ok(PyNone), <<engineCall, pdCall, printCall(pdOut.exc)>>)
        ELSE Done(self, Ok(pdOut.value), <<engineCall, pdCall>>)

-----------------------------------------------------------------------------
\* OllamaSQLAgent

\* __init__ with username and password in each other's place
OllamaSQLAgent_init_swapped(server, database, username, password, use_windows_auth) ==
    LET connection_string ==
            IF use_windows_auth
            THEN <<"mssql+pyodbc://">> \o Format(server) \o <<"/">> \o Format(database)
                 \o <<"?driver=", "ODBC+Driver+17+for+SQL+Server", "&trusted_connection=yes">>
            ELSE <<"mssql+pyodbc://">> \o Format(password) \o <<":">> \o Format(username)
                 \o <<"@">> \o Format(server) \o <<"/">> \o Format(database)
                 \o <<"?driver=", "ODBC+Driver+17+for+SQL+Server">>
    IN  [connection_string |-> connection_string,
         db |-> SQLDatabase(connection_string),
         llm |-> PyNone,
         agent_executor |-> PyNone]

\* __init__: the connection string, the session made from it, no LLM, no agent
OllamaSQLAgent_init(server, database, username, password, use_windows_auth) ==
    LET connection_string ==
            IF use_windows_auth
            THEN <<"mssql+pyodbc://">> \o Format(server) \o <<"/">> \o Format(database)
                 \o <<"?driver=", "ODBC+Driver+17+for+SQL+Server", "&trusted_connection=yes">>
            ELSE <<"mssql+pyodbc://">> \o Format(username) \o <<":">> \o Format(password)
                 \o <<"@">> \o Format(server) \o <<"/">> \o Format(database)
                 \o <<"?driver=", "ODBC+Driver+17+for+SQL+Server">>
    IN  [connection_string |-> connection_string,
         db |-> SQLDatabase(connection_string),
         llm |-> PyNone,
         agent_executor |-> PyNone]

\* setup_ollama that clears self.llm when Ollama(...) raises
setup_ollama_reset(self, model_name, base_url, id, llmExc, agentExc) ==
    LET config == [model |-> model_name, base_url |-> base_url]
        llm == LLM("Ollama", config, id)
        agent == Agent(llm, self.db, id)
        llmCall == Call("Ollama", "__init__", config,
                        IF llmExc = PyNone THEN Ok(llm) ELSE Raise(llmExc))
        agentCall == Call("create_sql_agent", "__call__", llm,
                          IF agentExc = PyNone THEN Ok(agent) ELSE Raise(agentExc))
    IN  IF llmExc /= PyNone
        THEN Done([self EXCEPT !.llm = PyNone], Raise(llmExc), <<llmCall>>)
        ELSE IF agentExc /= PyNone
        THEN Done([self EXCEPT !.llm = llm], Raise(agentExc), <<llmCall, agentCall>>)
        ELSE Done([self EXCEPT !.llm = llm, !.agent_executor = agent],
                  Ok(PyNone), <<llmCall, agentCall>>)

\* llmExc / agentExc: the exception Ollama(...) / create_sql_agent(...) raises, or None
setup_ollama(self, model_name, base_url, id, llmExc, agentExc) ==
    LET config == [model |-> model_name, base_url |-> base_url]
        llm == LLM("Ollama", config, id)
        agent == Agent(llm, self.db, id)
        llmCall == Call("Ollama", "__init__", config,
                        IF llmExc = PyNone THEN Ok(llm) ELSE Raise(llmExc))
        agentCall == Call("create_sql_agent", "__call__", llm,
                          IF agentExc = PyNone THEN Ok(agent) ELSE Raise(agentExc))
    IN  IF llmExc /= PyNone THEN Done(self, Raise(llmExc), <<llmCall>>)
        ELSE IF agentExc /= PyNone
        THEN Done([self EXCEPT !.llm = llm], Raise(agentExc), <<llmCall, agentCall>>)
        ELSE Done([self EXCEPT !.llm = llm, !.agent_executor = agent],
                  Ok(PyNone), <<llmCall, agentCall>>)

\* ask_question that tests "context is not None" instead of "context"
ask_question_context_not_none(self, question, context, agentOut) ==
    IF ~Truthy(self.agent_executor)
    THEN Done(self, Ok(PyStr(<<"Errore", ": Configurare prima Ollama con setup_ollama()">>)), <<>>)
    ELSE LET enhanced_question ==
                 IF context /= PyNone
                 THEN PyStr(<<"\n            ", "Contesto: ">> \o Format(context)
                            \o <<"\n            \n            ", "Domanda: ">> \o Format(question)
                            \o <<"\n            \n            Genera una query SQL Server appropriata e eseguila.\n            ">>)
                 ELSE question
         IN  Done(self,
                  IF agentOut.kind = "return"
                  THEN Ok(agentOut.value)
                  ELSE Ok(PyStr(<<"Errore", ": ">> \o StrOfExc(agentOut.exc))),
                  <<Call("agent", "run", enhanced_question, agentOut)>>)

\* ask_question that runs the agent a second time when the first run raises
ask_question_retries(self, question, context, agentOut) ==
    IF ~Truthy(self.agent_executor)
    THEN Done(self, Ok(PyStr(<<"Errore", ": Configurare prima Ollama con setup_ollama()">>)), <<>>)
    ELSE LET enhanced_question ==
                 IF Truthy(context)
                 THEN PyStr(<<"\n            ", "Contesto: ">> \o Format(context)
                            \o <<"\n            \n            ", "Domanda: ">> \o Format(question)
                            \o <<"\n            \n            Genera una query SQL Server appropriata e eseguila.\n            ">>)
                 ELSE question
             agentCall == Call("agent", "run", enhanced_question, agentOut)
         IN  IF agentOut.kind = "return"
             THEN Done(self, Ok(agentOut.value), <<agentCall>>)
             ELSE Done(self, Ok(PyStr(<<"Errore", ": ">> \o StrOfExc(agentOut.exc))),
                       <<agentCall, agentCall>>)

ask_question(self, question, context, agentOut) ==
    IF ~Truthy(self.agent_executor)
    THEN Done(self, Ok(PyStr(<<"Errore", ": Configurare prima Ollama con setup_ollama()">>)), <<>>)
    ELSE LET enhanced_question ==
                 IF Truthy(context)
                 THEN PyStr(<<"\n            ", "Contesto: ">> \o Format(context)
                            \o <<"\n            \n            ", "Domanda: ">> \o Format(question)
                            \o <<"\n            \n            Genera una query SQL Server appropriata e eseguila.\n            ">>)
                 ELSE question
         IN  Done(self,
                  IF agentOut.kind = "return"
                  THEN Ok(agentOut.value)
                  ELSE Ok(PyStr(<<"Errore", ": ">> \o StrOfExc(agentOut.exc))),
                  <<Call("agent", "run", enhanced_question, agentOut)>>)

\* dbOut: what self.db.get_table_info() does; chainOut: what sql_chain.run does
generate_sql_only(self, question, dbOut, chainOut) ==
    IF ~Truthy(self.llm)
    THEN Done(self, Ok(PyStr(<<"Errore", ": Configurare prima Ollama con setup_ollama()">>)), <<>>)
    ELSE LET dbCall == Call("db", "get_table_info", PyNone, dbOut)
             chainCall == Call("llm", "sql_chain.run",
                               [question |-> question, schema |-> dbOut.value], chainOut)
         IN  IF dbOut.kind = "raise"
             THEN Done(self, Raise(dbOut.exc), <<dbCall>>)
             ELSE Done(self,
                       IF chainOut.kind = "return"
                       THEN Ok(PyStr(strip(chainOut.value.s)))
                       ELSE Ok(PyStr(<<"Errore", " nella generazione SQL: ">>
                                     \o StrOfExc(chainOut.exc))),
                       <<dbCall, chainCall>>)

\* explain_query that drops self.llm when the chain raises
explain_query_resets(self, sql_query, chainOut) ==
    IF ~Truthy(self.llm)
    THEN Done(self, Ok(PyStr(<<"Errore", ": Configurare prima Ollama con setup_ollama()">>)), <<>>)
    ELSE Done(IF chainOut.kind = "return" THEN self ELSE [self EXCEPT !.llm = PyNone],
              IF chainOut.kind = "return"
              THEN Ok(chainOut.value)
              ELSE Ok(PyStr(<<"Errore", " nella spiegazione: ">> \o StrOfExc(chainOut.exc))),
              <<Call("llm", "explain_chain.run", [query |-> sql_query], chainOut)>>)

explain_query(self, sql_query, chainOut) ==
    IF ~Truthy(self.llm)
    THEN Done(self, Ok(PyStr(<<"Errore", ": Configurare prima Ollama con setup_ollama()">>)), <<>>)
    ELSE Done(self,
              IF chainOut.kind = "return"
              THEN Ok(chainOut.value)
              ELSE Ok(PyStr(<<"Errore", " nella spiegazione: ">> \o StrOfExc(chainOut.exc))),
              <<Call("llm", "explain_chain.run", [query |-> sql_query], chainOut)>>)

\* schemaOut: self.db.get_table_info(table_names=[table_name]); statsOut:
\* self.db.run(stats_query); chainOut: summary_chain.run
get_table_summary(self, table_name, schemaOut, statsOut, chainOut) ==
    LET stats_query ==
            PyStr(<<"SELECT COUNT(*) as total_rows, COUNT(DISTINCT *) as unique_rows FROM [">>
                  \o Format(table_name) \o <<"]">>)
        failed(e) == Ok(PyStr(<<"Errore", " nel riassunto tabella: ">> \o StrOfExc(e)))
        schemaCall == Call("db", "get_table_info", PyList(<<table_name>>), schemaOut)
        statsCall == Call("db", "run", stats_query, statsOut)
        chainCall == Call("llm", "summary_chain.run",
                          [table_name |-> table_name, schema |-> schemaOut.value,
                           stats |-> statsOut.value], chainOut)
        summaryDict(summary) ==
            [t |-> "dict", schema |-> schemaOut.value, statistics |-> statsOut.value,
             summary |-> summary]
    IN  IF schemaOut.kind = "raise"
        THEN Done(self, failed(schemaOut.exc), <<schemaCall>>)
        ELSE IF statsOut.kind = "raise"
        THEN Done(self, failed(statsOut.exc), <<schemaCall, statsCall>>)
        ELSE IF ~Truthy(self.llm)
        THEN Done(self, Ok(summaryDict(PyStr(<<"LLM non configurato per il riassunto">>))),
                  <<schemaCall, statsCall>>)
        ELSE IF chainOut.kind = "raise"
        THEN Done(self, failed(chainOut.exc), <<schemaCall, statsCall, chainCall>>)
        ELSE Done(self, Ok(summaryDict(chainOut.value)), <<schemaCall, statsCall, chainCall>>)

-----------------------------------------------------------------------------
\* The state machine: two instances built from the same constructor arguments,
\* and callers that invoke their methods in any order.

\* The langchain wrapper as its constructor leaves it
NoCallLc ==
    SQLServerLangChain_init(args.server, args.database, args.username,
                            args.password, args.use_windows_auth)

\* The local-model wrapper as its constructor leaves it
NoCallOl ==
    OllamaSQLAgent_init(args.server, args.database, args.username,
                        args.password, args.use_windows_auth)

\* No method has been called yet
NoCall == [obj |-> "none", op |-> "none", in |-> PyNone, pre |-> PyNone,
           out |-> Ok(PyNone), calls |-> <<>>]

Init ==
    /\ args \in [server : Servers, database : Databases, username : Usernames,
                 password : Passwords, use_windows_auth : BOOLEAN]
    /\ lc = NoCallLc
    /\ ol = NoCallOl
    /\ last = NoCall
    /\ configured = {}
    /\ nsetup = [lc |-> 0, ol |-> 0]

\* A call of method op on the langchain wrapper with input in did r
LcStep(op, in, r) ==
    /\ lc' = r.self
    /\ last' = [obj |-> "lc", op |-> op, in |-> in, pre |-> lc, out |-> r.out,
                calls |-> r.calls]
    /\ UNCHANGED <<args, ol>>

\* A call of method op on the local-model wrapper with input in did r
OlStep(op, in, r) ==
    /\ ol' = r.self
    /\ last' = [obj |-> "ol", op |-> op, in |-> in, pre |-> ol, out |-> r.out,
                calls |-> r.calls]
    /\ UNCHANGED <<args, lc>>

CallGetTables ==
    \E dbOut \in Outcomes(TableLists) :
        /\ LcStep("get_tables", PyNone, get_tables(lc, dbOut))
        /\ UNCHANGED <<configured, nsetup>>

CallGetTableSchema ==
    \E table_name \in TableNames, dbOut \in Outcomes(Schemas) :
        /\ LcStep("get_table_schema", table_name, get_table_schema(lc, table_name, dbOut))
        /\ UNCHANGED <<configured, nsetup>>

CallExecuteQuery ==
    \E query \in Queries, dbOut \in Outcomes(DbResults) :
        /\ LcStep("execute_query", query, execute_query(lc, query, dbOut))
        /\ UNCHANGED <<configured, nsetup>>

CallSetupAgent ==
    \E key \in ApiKeys, llmExc \in MaybeExc, agentExc \in MaybeExc :
        LET r == setup_agent(lc, key, nsetup.lc + 1, llmExc, agentExc)
        IN  /\ nsetup.lc < MaxSetups
            /\ LcStep("setup_agent", key, r)
            /\ nsetup' = [nsetup EXCEPT !.lc = @ + 1]
            /\ configured' = IF r.out.kind = "return" THEN configured \cup {"lc"}
                             ELSE configured

CallNaturalLanguageQuery ==
    \E question \in Questions, agentOut \in Outcomes(Answers) :
        /\ LcStep("natural_language_query", question,
                  natural_language_query(lc, question, agentOut))
        /\ UNCHANGED <<configured, nsetup>>

CallQueryToDataframe ==
    \E query \in Queries, engineExc \in MaybeExc, pdOut \in Outcomes(DataFrames) :
        /\ LcStep("query_to_dataframe", query,
                  query_to_dataframe(lc, query, engineExc, pdOut))
        /\ UNCHANGED <<configured, nsetup>>

CallSetupOllama ==
    \E model_name \in ModelNames, base_url \in BaseUrls,
       llmExc \in MaybeExc, agentExc \in MaybeExc :
        LET r == setup_ollama(ol, model_name, base_url, nsetup.ol + 1, llmExc, agentExc)
        IN  /\ nsetup.ol < MaxSetups
            /\ OlStep("setup_ollama", model_name, r)
            /\ nsetup' = [nsetup EXCEPT !.ol = @ + 1]
            /\ configured' = IF r.out.kind = "return" THEN configured \cup {"ol"}
                             ELSE configured

CallAskQuestion ==
    \E question \in Questions, context \in Contexts, agentOut \in Outcomes(Answers) :
        /\ OlStep("ask_question", [question |-> question, context |-> context],
                  ask_question(ol, question, context, agentOut))
        /\ UNCHANGED <<configured, nsetup>>

CallGenerateSqlOnly ==
    \E question \in Questions, dbOut \in Outcomes(Schemas), chainOut \in Outcomes(Answers) :
        /\ OlStep("generate_sql_only", question,
                  generate_sql_only(ol, question, dbOut, chainOut))
        /\ UNCHANGED <<configured, nsetup>>

CallExplainQuery ==
    \E sql_query \in Queries, chainOut \in Outcomes(Answers) :
        /\ OlStep("explain_query", sql_query, explain_query(ol, sql_query, chainOut))
        /\ UNCHANGED <<configured, nsetup>>

CallGetTableSummary ==
    \E table_name \in TableNames, schemaOut \in Outcomes(Schemas),
       statsOut \in Outcomes(DbResults), chainOut \in Outcomes(Answers) :
        /\ OlStep("get_table_summary", table_name,
                  get_table_summary(ol, table_name, schemaOut, statsOut, chainOut))
        /\ UNCHANGED <<configured, nsetup>>

Next ==
    \/ CallGetTables
    \/ CallGetTableSchema
    \/ CallExecuteQuery
    \/ CallSetupAgent
    \/ CallNaturalLanguageQuery
    \/ CallQueryToDataframe
    \/ CallSetupOllama
    \/ CallAskQuestion
    \/ CallGenerateSqlOnly
    \/ CallExplainQuery
    \/ CallGetTableSummary

Spec == Init /\ [][Next]_vars

-----------------------------------------------------------------------------
\* Vocabulary of the properties

\* The calls the last method made on one collaborator
CallsOn(target) == SelectSeq(last.calls, LAMBDA c : c.target = target)

\* The object the last method was called on, as it is now
Current == IF last.obj = "lc" THEN lc ELSE ol

Contains(seq, tok) == \E i \in 1..Len(seq) : seq[i] = tok

EndsWith(seq, suffix) ==
    /\ Len(seq) >= Len(suffix)
    /\ SubSeq(seq, Len(seq) - Len(suffix) + 1, Len(seq)) = suffix

\* A Python string whose text starts with Errore
IsErrore(v) == v.t = "str" /\ v.s /= <<>> /\ Head(v.s) = "Errore"

\* The fixed not-configured message of each wrapper
NotConfiguredMessage ==
    IF last.obj = "lc"
    THEN PyStr(<<"Errore", ": Agente non configurato. Usa setup_agent() prima.">>)
    ELSE PyStr(<<"Errore", ": Configurare prima Ollama con setup_ollama()">>)

\* The last call answered not-configured without touching a collaborator
AnsweredNotConfigured ==
    /\ last.out = Ok(NotConfiguredMessage)
    /\ IsErrore(last.out.value)
    /\ CallsOn("agent") = <<>>
    /\ CallsOn("llm") = <<>>
    /\ CallsOn("db") = <<>>

\* The handle the last method tests before it proceeds was absent when it was called
CheckedHandleAbsent ==
    \/ last.op = "natural_language_query" /\ last.pre.agent_executor = Unset
    \/ last.op = "ask_question" /\ last.pre.agent_executor = PyNone
    \/ last.op \in {"generate_sql_only", "explain_query"} /\ last.pre.llm = PyNone

-----------------------------------------------------------------------------
\* C1 as stated: natural_language_query, ask_question, generate_sql_only or
\* explain_query, called on an instance on which no configure call has ever
\* completed, returns the fixed not-configured "Errore" string, does not raise,
\* and calls neither the agent, the LLM nor the database session.
C1_NoCompletedConfigure ==
    (/\ last.op \in {"natural_language_query", "ask_question",
                     "generate_sql_only", "explain_query"}
     /\ last.obj \notin configured)
        => AnsweredNotConfigured

\* C1 amended: natural_language_query, ask_question, generate_sql_only or
\* explain_query, called while the handle it tests is absent (the agent handle
\* for natural_language_query and ask_question, the LLM handle for
\* generate_sql_only and explain_query), returns the fixed not-configured
\* "Errore" string, does not raise, and calls neither the agent, the LLM nor
\* the database session.
C1_CheckedHandleAbsent == CheckedHandleAbsent => AnsweredNotConfigured

\* ask_question answered not-configured after a setup_ollama that raised
\* partway and left an LLM handle behind
C1_Witness ==
    /\ last.op = "ask_question"
    /\ last.pre.llm /= PyNone
    /\ last.pre.agent_executor = PyNone
    /\ AnsweredNotConfigured

\* C2: execute_query never raises, calls the session exactly once, returns the
\* session's value when the call succeeds and "Errore nell'esecuzione della
\* query: " followed by str(e) when it raises e.
C2_ExecuteQuery ==
    last.op = "execute_query" =>
        /\ last.out.kind = "return"
        /\ Len(CallsOn("db")) = 1
        /\ LET r == CallsOn("db")[1].result
           IN  /\ r.kind = "return" => last.out.value = r.value
               /\ r.kind = "raise" =>
                      last.out.value =
                          PyStr(<<"Errore nell'esecuzione della query: ">> \o StrOfExc(r.exc))

\* execute_query was called and the session raised
C2_Witness ==
    /\ last.op = "execute_query"
    /\ CallsOn("db")[1].result.kind = "raise"
    /\ last.out.kind = "return"

\* C3: for every combination of constructor arguments, absent credentials imply
\* that the connection string uses trusted authentication: it contains
\* trusted_connection=yes and no user:pass@ part.
C3_AbsentCredentialsTrusted ==
    (args.username = PyNone /\ args.password = PyNone) =>
        \A cs \in {lc.connection_string, ol.connection_string} :
            /\ Contains(cs, "&trusted_connection=yes")
            /\ ~Contains(cs, "@")

\* C4: with use_windows_auth true the connection string is
\* mssql+pyodbc://<server>/<database>?driver=ODBC+Driver+17+for+SQL+Server&trusted_connection=yes
\* whatever username and password are; with use_windows_auth false it is
\* mssql+pyodbc://<username>:<password>@<server>/<database>?driver=ODBC+Driver+17+for+SQL+Server
\* without a trusted_connection parameter; both wrappers build the same string.
C4_ConnectionStringFormat ==
    LET tail == <<"/">> \o args.database.s \o <<"?driver=", "ODBC+Driver+17+for+SQL+Server">>
    IN  /\ lc.connection_string = ol.connection_string
        /\ \A cs \in {lc.connection_string, ol.connection_string} :
            /\ args.use_windows_auth =>
                   cs = <<"mssql+pyodbc://">> \o args.server.s \o tail
                        \o <<"&trusted_connection=yes">>
            /\ ~args.use_windows_auth =>
                   /\ ~Contains(cs, "&trusted_connection=yes")
                   /\ EndsWith(cs, <<"@">> \o args.server.s \o tail)
                   /\ (args.username.t = "str" /\ args.password.t = "str") =>
                          cs = <<"mssql+pyodbc://">> \o args.username.s \o <<":">>
                               \o args.password.s \o <<"@">> \o args.server.s \o tail

\* Both instances were built with explicit credentials
C4_Witness ==
    /\ ~args.use_windows_auth
    /\ args.username.t = "str"
    /\ args.password.t = "str"
    /\ Contains(lc.connection_string, "@")
    /\ Contains(ol.connection_string, "@")

\* C5: ask_question with an agent configured calls the agent exactly once; the
\* text it hands over is the question itself when context is None or empty, and
\* otherwise the template with the context after "Contesto: " and the question
\* after "Domanda: ", context first.
C5_EnhancedQuestion ==
    (last.op = "ask_question" /\ last.pre.agent_executor /= PyNone) =>
        /\ Len(CallsOn("agent")) = 1
        /\ LET given == CallsOn("agent")[1].arg
               context == last.in.context
               question == last.in.question
           IN  IF context = PyNone \/ context = PyStr(<<>>)
               THEN given = question
               ELSE given =
                        PyStr(<<"\n            ", "Contesto: ">> \o context.s
                              \o <<"\n            \n            ", "Domanda: ">> \o question.s
                              \o <<"\n            \n            Genera una query SQL Server appropriata e eseguila.\n            ">>)

\* ask_question handed the agent a question with a context in front
C5_Witness ==
    /\ last.op = "ask_question"
    /\ last.in.context.t = "str"
    /\ last.in.context.s /= <<>>
    /\ Len(CallsOn("agent")) = 1
    /\ Contains(CallsOn("agent")[1].arg.s, "Contesto: ")

\* C6: generate_sql_only, explain_query and get_table_summary return to the
\* caller and do not raise, whatever the database-session calls and the chain
\* call they make do.
C6_NeverRaises ==
    last.op \in {"generate_sql_only", "explain_query", "get_table_summary"} =>
        last.out.kind = "return"

\* C7: query_to_dataframe never raises; when reading the query fails it logs the
\* error and returns None; when it succeeds it returns the table pandas made;
\* it never returns an error string.
C7_QueryToDataframe ==
    last.op = "query_to_dataframe" =>
        /\ last.out.kind = "return"
        /\ last.out.value.t /= "str"
        /\ IF \E i \in 1..Len(last.calls) : last.calls[i].result.kind = "raise"
           THEN /\ last.out.value = PyNone
                /\ Len(CallsOn("print")) = 1
           ELSE /\ Len(CallsOn("pandas")) = 1
                /\ last.out.value = CallsOn("pandas")[1].result.value
                /\ last.out.value.t = "df"

\* query_to_dataframe returned None because the engine could not be read
C7_Witness ==
    /\ last.op = "query_to_dataframe"
    /\ CallsOn("db")[1].result.kind = "raise"
    /\ last.out = Ok(PyNone)

\* C8: natural_language_query / ask_question with an agent configured never
\* raises and calls the agent exactly once; it returns the agent's answer
\* unchanged, or, when the agent raises e, a string that starts with Errore and
\* ends with str(e); the instance's handles are as they were before the call.
C8_AgentCall ==
    (/\ last.op \in {"natural_language_query", "ask_question"}
     /\ last.pre.agent_executor \notin {Unset, PyNone}) =>
        /\ last.out.kind = "return"
        /\ Len(CallsOn("agent")) = 1
        /\ LET r == CallsOn("agent")[1].result
           IN  /\ r.kind = "return" => last.out.value = r.value
               /\ r.kind = "raise" =>
                      /\ IsErrore(last.out.value)
                      /\ EndsWith(last.out.value.s, StrOfExc(r.exc))
        /\ Current = last.pre

\* ask_question turned an exception of the agent into an Errore string
C8_Witness ==
    /\ last.op = "ask_question"
    /\ Len(CallsOn("agent")) = 1
    /\ CallsOn("agent")[1].result.kind = "raise"
    /\ IsErrore(last.out.value)

\* C9: the connection string and the session handle keep the constructor's
\* values over any sequence of operations; the agent handle is absent as long
\* as no configure call has been made; an operation other than setup_agent /
\* setup_ollama leaves the agent and LLM handles as they were.
C9_Frame ==
    /\ lc.connection_string = NoCallLc.connection_string
    /\ lc.db = NoCallLc.db
    /\ ol.connection_string = NoCallOl.connection_string
    /\ ol.db = NoCallOl.db
    /\ nsetup.lc = 0 => lc.agent_executor = Unset
    /\ nsetup.ol = 0 => ol.agent_executor = PyNone /\ ol.llm = PyNone
    /\ (last.obj /= "none" /\ last.op \notin {"setup_agent", "setup_ollama"}) =>
           /\ Current.agent_executor = last.pre.agent_executor
           /\ last.obj = "ol" => Current.llm = last.pre.llm

\* A chain call of explain_query failed on a configured instance
C9_Witness ==
    /\ last.op = "explain_query"
    /\ Len(CallsOn("llm")) = 1
    /\ CallsOn("llm")[1].result.kind = "raise"
    /\ ol.llm /= PyNone
    /\ ol.agent_executor /= PyNone

\* C10: in the local-model wrapper an agent handle that is present implies an
\* LLM handle that is present, also after a setup_ollama call that raised
\* partway and after repeated setup_ollama calls.
C10_AgentImpliesLLM == Truthy(ol.agent_executor) => Truthy(ol.llm)

\* A second setup_ollama raised in create_sql_agent after a first one succeeded
C10_Witness ==
    /\ last.op = "setup_ollama"
    /\ last.out.kind = "raise"
    /\ Len(last.calls) = 2
    /\ Truthy(last.pre.agent_executor)
    /\ Truthy(ol.agent_executor)
    /\ ol.llm /= last.pre.llm

====
